---------------------------- MODULE Spec2Model ----------------------------
(***************************************************************************)
(* Model of the adaptive-precision endgame pieces of Bertini 2:            *)
(*   - HermiteInterpolateAndSolve     (tracking/interpolation.hpp)         *)
(*   - AMP criteria A, B, C           (tracking/amp_criteria.hpp)          *)
(*   - the object pool behind SystemPool / PointPool (system_pool.hpp)     *)
(*   - the power-series endgame convergence loop                           *)
(*                                                                         *)
(* Scalars (the template parameter CT / RealType) are exact rationals,     *)
(* a pair <<numerator, denominator>> in lowest terms with a positive       *)
(* denominator.  A Vec<CT> is modelled by one component: every vector      *)
(* operation of the interpolation code acts component-wise.                *)
(***************************************************************************)
EXTENDS Integers, Sequences, FiniteSets, TLC

(***************************************************************************)
(* Bounds of the model.                                                    *)
(***************************************************************************)
\* longest sample history, and largest num_sample_points requested
MaxSamples == 3
\* largest Jacobian norm, inverse norm, tolerance and residual (abstract units)
MaxNorm == 2
\* largest number of Newton iterations remaining
MaxIterations == 2
\* concurrent callers of the pool
NumCallers == 3
\* refinements the endgame loop may spend, largest estimate and tolerance
MaxRefinements == 2
MaxEstimate == 2
MaxTolerance == 1

VARIABLES
    \* ---- one call of HermiteInterpolateAndSolve
    path,               \* the polynomial the tracked path follows (coefficients)
    target_time, num_sample_points, times, samples, derivatives,
    hermite_pc,         \* "ready" before the call, "done" after it
    outcome,            \* what the call produced
    \* ---- one evaluation of an AMP criterion
    norm_J, norm_J_inverse, num_newton_iterations_remaining,
    tracking_tolerance, norm_of_latest_newton_residual, norm_z,
    num_digits,         \* NumTraits<RealType>::NumDigits()
    AMP_config,
    log10_steps,        \* where the model's log10 steps up
    verdict,            \* the criterion evaluated and what it returned
    \* ---- the object pool
    pool_idle,          \* instances held by the pool, not checked out
    pool_constructed,   \* number of instances constructed so far
    pool_handle,        \* caller -> instance it holds a live handle to, or 0
    pool_pick,          \* caller -> idle instance chosen for reuse, or 0
    pool_pc,            \* caller -> where it is in acquire / release
    pool_mutex,         \* caller inside the pool's critical section, or 0
    \* ---- the endgame convergence loop
    eg_state, eg_samples, eg_window, eg_previous, eg_latest, eg_refinements,
    eg_tolerance

hermiteVars == <<path, target_time, num_sample_points, times, samples,
                 derivatives, hermite_pc, outcome>>

ampVars == <<norm_J, norm_J_inverse, num_newton_iterations_remaining,
             tracking_tolerance, norm_of_latest_newton_residual, norm_z,
             num_digits, AMP_config, log10_steps, verdict>>

poolVars == <<pool_idle, pool_constructed, pool_handle, pool_pick, pool_pc,
              pool_mutex>>

endgameVars == <<eg_state, eg_samples, eg_window, eg_previous, eg_latest,
                 eg_refinements, eg_tolerance>>

vars == <<hermiteVars, ampVars, poolVars, endgameVars>>

(***************************************************************************)
(* Exact rational arithmetic.                                              *)
(***************************************************************************)
Abs(x) == IF x < 0 THEN -x ELSE x

RECURSIVE GCD(_, _)
GCD(a, b) == IF b = 0 THEN a ELSE GCD(b, a % b)

RNorm(n, d) ==
    LET s == IF d < 0 THEN -1 ELSE 1
        g == GCD(Abs(n), Abs(d))
    IN  <<(s * n) \div g, (s * d) \div g>>

R(n) == <<n, 1>>

RNeg(a) == <<-a[1], a[2]>>

RAdd(a, b) ==
    LET g == GCD(a[2], b[2])
    IN  RNorm(a[1] * (b[2] \div g) + b[1] * (a[2] \div g), (a[2] \div g) * b[2])

RSub(a, b) == RAdd(a, RNeg(b))

RMul(a, b) ==
    LET g1 == GCD(Abs(a[1]), b[2])
        g2 == GCD(Abs(b[1]), a[2])
    IN  RNorm((a[1] \div g1) * (b[1] \div g2), (a[2] \div g2) * (b[2] \div g1))

\* b is nonzero wherever the interpolation divides: the sample times are distinct
RDiv(a, b) == RMul(a, IF b[1] < 0 THEN <<-b[2], -b[1]>> ELSE <<b[2], b[1]>>)

RLeq(a, b) == a[1] * b[2] <= b[1] * a[2]

RAbs(a) == <<Abs(a[1]), a[2]>>

\* the value of a table cell or vector slot that was allocated but never assigned
Unset == <<0, 0>>

(***************************************************************************)
(* The path the tracker samples: a polynomial in time, given by its        *)
(* coefficients <<c0, c1, ...>>.                                           *)
(***************************************************************************)
RECURSIVE PolyEvalFrom(_, _, _)
PolyEvalFrom(p, x, k) ==
    IF k > Len(p) THEN R(0)
    ELSE RAdd(R(p[k]), RMul(x, PolyEvalFrom(p, x, k + 1)))

PolyEval(p, x) == PolyEvalFrom(p, x, 1)

PolyDerivative(p) == [k \in 1..(Len(p) - 1) |-> k * p[k + 1]]

\* degree of p (0 for a constant, also for the zero polynomial)
RECURSIVE DegreeFrom(_, _)
DegreeFrom(p, k) == IF k <= 1 \/ p[k] # 0 THEN k - 1 ELSE DegreeFrom(p, k - 1)

Degree(p) == IF Len(p) = 0 THEN 0 ELSE DegreeFrom(p, Len(p))

(***************************************************************************)
(* HermiteInterpolateAndSolve, interpolation.hpp.                          *)
(*                                                                         *)
(* call = [target_time, num_sample_points, times, samples, derivatives].   *)
(* The containers are deques indexed from 0; the model's sequences are     *)
(* indexed from 1.  The working state st holds the 2n x 2n table           *)
(* space_differences (sd), the 2n vector time_differences (td), Result,    *)
(* the number of Horner iterations run, and the first memory fault met     *)
(* (an index outside the allocation, or a read of a never-assigned cell).  *)
(***************************************************************************)
\* unsigned int arithmetic wraps.  The build's modulus is 2^32; the model keeps
\* a 16-bit modulus, which wraps 0 - 1 to the largest value in the same way and
\* stays far above every table dimension the model reaches.
UIntModulus == 65536

U(x) == x % UIntModulus

DequeAt(d, i) == d[i + 1]

InDeque(d, i) == i \in 0..(Len(d) - 1)

InTable(st, r, c) == r \in 0..(st.dim - 1) /\ c \in 0..(st.dim - 1)

InVector(st, i) == i \in 0..(st.dim - 1)

\* the fault, if any, of a statement that touches the table cells `cells` and
\* vector slots `slots`, reading `readCells` and `readSlots` among them
Fault(st, cells, slots, readCells, readSlots) ==
    IF \/ \E rc \in cells : ~InTable(st, rc[1], rc[2])
       \/ \E i \in slots : ~InVector(st, i)
    THEN "out_of_range"
    ELSE IF \/ \E rc \in readCells : st.sd[rc[1]][rc[2]] = Unset
            \/ \E i \in readSlots : st.td[i] = Unset
    THEN "uninitialized_read"
    ELSE "none"

\* (variant: the size comparisons made strict)
FailedAssertion_Strict(call) ==
    IF ~(Len(call.times) > call.num_sample_points) THEN "assert_times"
    ELSE IF ~(Len(call.samples) > call.num_sample_points) THEN "assert_samples"
    ELSE IF ~(Len(call.derivatives) > call.num_sample_points) THEN "assert_derivatives"
    ELSE "none"

\* lines 65-67: the first assertion that fails, in source order
FailedAssertion(call) ==
    IF ~(Len(call.times) >= call.num_sample_points) THEN "assert_times"
    ELSE IF ~(Len(call.samples) >= call.num_sample_points) THEN "assert_samples"
    ELSE IF ~(Len(call.derivatives) >= call.num_sample_points) THEN "assert_derivatives"
    ELSE "none"

\* lines 73-74: the freshly allocated table and vector
Allocate(call) ==
    LET dim == U(2 * call.num_sample_points)
    IN  [dim    |-> dim,
         sd     |-> [r \in 0..(dim - 1) |-> [c \in 0..(dim - 1) |-> Unset]],
         td     |-> [i \in 0..(dim - 1) |-> Unset],
         Result |-> Unset,
         iters  |-> 0,
         fault  |-> "none"]

\* (variant: the containers read from their oldest entry on)
SeedBody_OldestFirst(st, call, ii) ==
    LET f  == Fault(st, {<<2 * ii, 0>>, <<2 * ii + 1, 0>>, <<2 * ii + 1, 1>>},
                    {2 * ii, 2 * ii + 1}, {}, {})
    IN  IF f # "none" THEN [st EXCEPT !.fault = f]
        ELSE IF ~(InDeque(call.samples, ii) /\ InDeque(call.derivatives, ii)
                  /\ InDeque(call.times, ii))
        THEN [st EXCEPT !.fault = "out_of_range"]
        ELSE [st EXCEPT !.sd[2 * ii][0]     = DequeAt(call.samples, ii),
                        !.sd[2 * ii + 1][0] = DequeAt(call.samples, ii),
                        !.sd[2 * ii + 1][1] = DequeAt(call.derivatives, ii),
                        !.td[2 * ii]        = DequeAt(call.times, ii),
                        !.td[2 * ii + 1]    = DequeAt(call.times, ii)]

\* lines 79-83: one pass of the seeding loop
SeedBody(st, call, ii) ==
    LET is == Len(call.samples) - 1 - ii
        id == Len(call.derivatives) - 1 - ii
        it == Len(call.times) - 1 - ii
        f  == Fault(st, {<<2 * ii, 0>>, <<2 * ii + 1, 0>>, <<2 * ii + 1, 1>>},
                    {2 * ii, 2 * ii + 1}, {}, {})
    IN  IF f # "none" THEN [st EXCEPT !.fault = f]
        ELSE IF ~(InDeque(call.samples, is) /\ InDeque(call.derivatives, id)
                  /\ InDeque(call.times, it))
        THEN [st EXCEPT !.fault = "out_of_range"]
        ELSE [st EXCEPT !.sd[2 * ii][0]     = DequeAt(call.samples, is),
                        !.sd[2 * ii + 1][0] = DequeAt(call.samples, is),
                        !.sd[2 * ii + 1][1] = DequeAt(call.derivatives, id),
                        !.td[2 * ii]        = DequeAt(call.times, it),
                        !.td[2 * ii + 1]    = DequeAt(call.times, it)]

\* lines 77-84: for(unsigned int ii=0; ii<num_sample_points; ++ii)
RECURSIVE SeedLoop(_, _, _)
SeedLoop(st, call, ii) ==
    IF st.fault = "none" /\ ii < call.num_sample_points
    THEN SeedLoop(SeedBody(st, call, ii), call, U(ii + 1))
    ELSE st

\* line 89: the first divided difference between two different nodes
FirstDifference(st, ii) ==
    LET f == Fault(st, {<<2 * ii, 1>>, <<2 * ii, 0>>, <<2 * ii - 1, 0>>},
                   {2 * ii, 2 * ii - 1},
                   {<<2 * ii, 0>>, <<2 * ii - 1, 0>>}, {2 * ii, 2 * ii - 1})
    IN  IF f # "none" THEN [st EXCEPT !.fault = f]
        ELSE [st EXCEPT !.sd[2 * ii][1] =
                 RDiv(RSub(st.sd[2 * ii][0], st.sd[2 * ii - 1][0]),
                      RSub(st.td[2 * ii], st.td[2 * ii - 1]))]

\* lines 87-91: for(unsigned int ii=1; ii< num_sample_points; ++ii)
RECURSIVE FirstDifferenceLoop(_, _, _)
FirstDifferenceLoop(st, call, ii) ==
    IF st.fault = "none" /\ ii < call.num_sample_points
    THEN FirstDifferenceLoop(FirstDifference(st, ii), call, U(ii + 1))
    ELSE st

\* lines 98-101: one cell of the divided-difference recurrence
FillCell(st, ii, jj) ==
    LET f == Fault(st, {<<ii, jj>>, <<ii, jj - 1>>, <<ii - 1, jj - 1>>},
                   {ii, ii - jj},
                   {<<ii, jj - 1>>, <<ii - 1, jj - 1>>}, {ii, ii - jj})
    IN  IF f # "none" THEN [st EXCEPT !.fault = f]
        ELSE [st EXCEPT !.sd[ii][jj] =
                 RDiv(RSub(st.sd[ii][jj - 1], st.sd[ii - 1][jj - 1]),
                      RSub(st.td[ii], st.td[ii - jj]))]

\* lines 96-102: for(unsigned int jj=2; jj <=ii; ++jj)
RECURSIVE FillRow(_, _, _)
FillRow(st, ii, jj) ==
    IF st.fault = "none" /\ jj <= ii
    THEN FillRow(FillCell(st, ii, jj), ii, U(jj + 1))
    ELSE st

\* lines 94-103: for(unsigned int ii=2; ii < 2*num_sample_points; ++ii)
RECURSIVE FillLoop(_, _, _)
FillLoop(st, call, ii) ==
    IF st.fault = "none" /\ ii < U(2 * call.num_sample_points)
    THEN FillLoop(FillRow(st, ii, 2), call, U(ii + 1))
    ELSE st

\* line 107: Result starts from the last diagonal entry
HornerStart(st, call) ==
    LET d == U(U(2 * call.num_sample_points) - 1)
        f == Fault(st, {<<d, d>>}, {}, {<<d, d>>}, {})
    IN  IF st.fault # "none" THEN st
        ELSE IF f # "none" THEN [st EXCEPT !.fault = f]
        ELSE [st EXCEPT !.Result = st.sd[d][d]]

\* line 114: one pass of the nested evaluation
HornerBody(st, call, ii) ==
    LET f == Fault(st, {<<2 * ii, 2 * ii>>, <<2 * ii - 1, 2 * ii - 1>>},
                   {ii, ii - 1},
                   {<<2 * ii, 2 * ii>>, <<2 * ii - 1, 2 * ii - 1>>}, {ii, ii - 1})
    IN  IF f # "none" THEN [st EXCEPT !.fault = f]
        ELSE [st EXCEPT
                !.Result =
                    RAdd(RMul(RAdd(RMul(st.Result,
                                        RSub(call.target_time, st.td[ii])),
                                   st.sd[2 * ii][2 * ii]),
                              RSub(call.target_time, st.td[ii - 1])),
                         st.sd[2 * ii - 1][2 * ii - 1]),
                !.iters = st.iters + 1]

\* lines 112-115: for (unsigned ii=num_sample_points-1; ii >= 1; --ii)
RECURSIVE HornerLoop(_, _, _)
HornerLoop(st, call, ii) ==
    IF st.fault = "none" /\ ii >= 1
    THEN HornerLoop(HornerBody(st, call, ii), call, U(ii - 1))
    ELSE st

\* (variant: the last factor taken as target_time + time_differences(0))
HornerReturn_SignError(st, call) ==
    LET f == Fault(st, {<<0, 0>>}, {0}, {<<0, 0>>}, {0})
    IN  IF st.fault # "none" THEN st
        ELSE IF f # "none" THEN [st EXCEPT !.fault = f]
        ELSE [st EXCEPT !.Result =
                 RAdd(RMul(st.Result, RAdd(call.target_time, st.td[0])),
                      st.sd[0][0])]

\* line 118: the last term, and the value returned
HornerReturn(st, call) ==
    LET f == Fault(st, {<<0, 0>>}, {0}, {<<0, 0>>}, {0})
    IN  IF st.fault # "none" THEN st
        ELSE IF f # "none" THEN [st EXCEPT !.fault = f]
        ELSE [st EXCEPT !.Result =
                 RAdd(RMul(st.Result, RSub(call.target_time, st.td[0])),
                      st.sd[0][0])]

\* lines 63-119.  status: which assertion failed, or "returned"; a memory
\* fault on the way is undefined behaviour, reported in `fault`
HermiteInterpolateAndSolve(call) ==
    LET a == FailedAssertion(call)
    IN  IF a # "none"
        THEN [status |-> a, value |-> Unset, built |-> FALSE, iters |-> 0,
              fault |-> "none"]
        ELSE
          LET seeded == SeedLoop(Allocate(call), call, 0)
              first  == FirstDifferenceLoop(seeded, call, 1)
              filled == FillLoop(first, call, 2)
              start  == HornerStart(filled, call)
              folded == HornerLoop(start, call, U(call.num_sample_points - 1))
              last   == HornerReturn(folded, call)
          IN  [status |-> "returned", value |-> last.Result, built |-> TRUE,
               iters |-> last.iters, fault |-> last.fault]

(***************************************************************************)
(* The caller of HermiteInterpolateAndSolve: a history sampled from the    *)
(* path, the most recent sample last, and one call on it.                  *)
(***************************************************************************)
\* sample times of the general histories
TimeVals == 0..MaxSamples

TargetTimes == {R(-1), R(0), R(1), R(2)}

\* the paths sampled: t^2 + 1, t^3, 2 - t + t^2 - t^3, 1 + t, t^5
Paths == {<<1, 0, 1>>, <<0, 0, 0, 1>>, <<2, -1, 1, -1>>, <<1, 1>>,
          <<0, 0, 0, 0, 0, 1>>}

\* histories of pairwise distinct integer times
HistoryTimes ==
    LET all == UNION {[1..L -> TimeVals] : L \in 0..MaxSamples}
    IN  {[i \in DOMAIN h |-> R(h[i])] :
            h \in {g \in all : \A i, j \in DOMAIN g : i # j => g[i] # g[j]}}

\* the scenario of three samples taken at 0.1, 0.01, 0.001
ScenarioTimes == <<<<1, 10>>, <<1, 100>>, <<1, 1000>>>>

ScenarioPath == <<1, 0, 1>>

\* a container that lost its `lag` oldest entries
DropOldest(h, lag) ==
    IF lag >= Len(h) THEN <<>> ELSE SubSeq(h, 1 + lag, Len(h))

Call == [target_time |-> target_time, num_sample_points |-> num_sample_points,
         times |-> times, samples |-> samples, derivatives |-> derivatives]

NoOutcome == [status |-> "none", value |-> Unset, built |-> FALSE, iters |-> 0,
              fault |-> "none"]

HermiteInit ==
    /\ \E h \in HistoryTimes \cup {ScenarioTimes}, lt, ls, ld \in 0..1 :
          /\ path \in (IF h = ScenarioTimes THEN {ScenarioPath} ELSE Paths)
          /\ times = DropOldest(h, lt)
          /\ samples = DropOldest([i \in DOMAIN h |-> PolyEval(path, h[i])], ls)
          /\ derivatives =
                DropOldest([i \in DOMAIN h |->
                               PolyEval(PolyDerivative(path), h[i])], ld)
    /\ num_sample_points \in 0..MaxSamples
    /\ target_time \in TargetTimes
    /\ hermite_pc = "ready"
    /\ outcome = NoOutcome

\* what a call that ran into undefined behaviour may produce
GarbageValues == {R(0), R(7)}

Outcomes(r) ==
    IF r.fault = "none" THEN {r}
    ELSE {[r EXCEPT !.status = "crashed", !.value = Unset]}
         \cup {[r EXCEPT !.value = g] : g \in GarbageValues}

HermiteCall ==
    /\ hermite_pc = "ready"
    /\ outcome' \in Outcomes(HermiteInterpolateAndSolve(Call))
    /\ hermite_pc' = "done"
    /\ UNCHANGED <<path, target_time, num_sample_points, times, samples,
                   derivatives, ampVars, poolVars, endgameVars>>

(***************************************************************************)
(* AMP criteria, amp_criteria.hpp.  RealType values are rationals extended *)
(* with the IEEE results of a division by zero: +inf, -inf and NaN.        *)
(***************************************************************************)
PosInf == <<1, 0>>

NegInf == <<-1, 0>>

NaN == <<0, 0>>

IsFinite(x) == x[2] # 0

FAdd(a, b) ==
    IF IsFinite(a) /\ IsFinite(b) THEN RAdd(a, b)
    ELSE IF a = NaN \/ b = NaN THEN NaN
    ELSE IF IsFinite(b) THEN a
    ELSE IF IsFinite(a) THEN b
    ELSE IF a = b THEN a ELSE NaN

\* a / b for finite a and b: a division by zero gives an infinity or NaN
FDiv(a, b) ==
    IF b[1] # 0 THEN RDiv(a, b)
    ELSE IF a[1] > 0 THEN PosInf
    ELSE IF a[1] < 0 THEN NegInf
    ELSE NaN

\* a > b; every comparison with NaN is false
FGt(a, b) ==
    IF a = NaN \/ b = NaN THEN FALSE
    ELSE IF ~IsFinite(a) \/ ~IsFinite(b)
         THEN a # b /\ (a = PosInf \/ b = NegInf)
    ELSE b[1] * a[2] < a[1] * b[2]

\* log10, of which the criteria use only that it does not decrease: a step
\* function from -1 to 1 that steps up at log10_steps[1] and at log10_steps[2]
log10(x) ==
    R((IF RLeq(R(log10_steps[1]), x) THEN 1 ELSE 0)
      + (IF RLeq(R(log10_steps[2]), x) THEN 1 ELSE 0) - 1)

NumDigits == R(num_digits)

\* line 65
CriterionA(nJ, nJinv, cfg) ==
    FGt(NumDigits,
        FAdd(R(cfg.safety_digits_1),
             log10(RMul(RMul(nJinv, cfg.epsilon), RAdd(nJ, cfg.Phi)))))

\* line 82
D(nJ, nJinv, cfg) ==
    log10(RAdd(RMul(nJinv,
                    RAdd(RMul(RAdd(R(2), cfg.epsilon), nJ),
                         RMul(cfg.epsilon, cfg.Phi))),
               R(1)))

\* (variant: the two logarithms of the quotient exchanged)
CriterionBRHS_SignFlipped(nJ, nJinv, remaining, tol, residual, cfg) ==
    FAdd(FAdd(R(cfg.safety_digits_1), D(nJ, nJinv, cfg)),
         FDiv(FAdd(log10(tol), RNeg(log10(residual))), R(remaining)))

\* line 104
CriterionBRHS(nJ, nJinv, remaining, tol, residual, cfg) ==
    FAdd(FAdd(R(cfg.safety_digits_1), D(nJ, nJinv, cfg)),
         FDiv(FAdd(RNeg(log10(tol)), log10(residual)), R(remaining)))

\* line 128
CriterionB(nJ, nJinv, remaining, tol, residual, cfg) ==
    FGt(NumDigits, CriterionBRHS(nJ, nJinv, remaining, tol, residual, cfg))

\* line 153
CriterionCRHS(nJinv, nz, tol, cfg) ==
    FAdd(FAdd(R(cfg.safety_digits_2), RNeg(log10(tol))),
         log10(RAdd(RMul(nJinv, cfg.Psi), nz)))

\* line 200, the norm of z taken by the caller (line 177)
CriterionC(nJinv, nz, tol, cfg) ==
    FGt(NumDigits, CriterionCRHS(nJinv, nz, tol, cfg))

(***************************************************************************)
(* The tracker's use of the criteria: one of them evaluated on the         *)
(* current norms.                                                          *)
(***************************************************************************)
\* the configuration of the run: positive epsilon, Phi and Psi
AMPConfigs ==
    {[safety_digits_1 |-> 1, safety_digits_2 |-> 1,
      epsilon |-> R(1), Phi |-> R(1), Psi |-> R(1)]}

\* the largest argument log10 is given (by D, line 82)
MaxLogArg == MaxNorm * (3 * MaxNorm + 1) + 1

DigitChoices == {2}

\* the call of criterion c about to be made
Pending(c) == [criterion |-> c, returned |-> FALSE, passed |-> FALSE]

\* one pending call; the arguments the criterion called does not take are
\* left at a default
AMPInit ==
    /\ verdict \in {Pending("A"), Pending("B"), Pending("C")}
    /\ norm_J \in (IF verdict.criterion = "C" THEN {1} ELSE 1..MaxNorm)
    /\ norm_J_inverse \in 1..MaxNorm
    /\ num_newton_iterations_remaining \in
          (IF verdict.criterion = "B" THEN 0..MaxIterations ELSE {1})
    /\ tracking_tolerance \in
          (IF verdict.criterion = "A" THEN {1} ELSE 1..MaxNorm)
    /\ norm_of_latest_newton_residual \in
          (IF verdict.criterion = "B" THEN 1..MaxNorm ELSE {1})
    /\ norm_z \in (IF verdict.criterion = "C" THEN 0..1 ELSE {0})
    /\ num_digits \in DigitChoices
    /\ AMP_config \in AMPConfigs
    /\ log10_steps \in {s \in (1..(MaxLogArg + 1)) \X (1..(MaxLogArg + 1)) :
                           s[1] <= s[2]}

AMPUnchanged ==
    UNCHANGED <<norm_J, norm_J_inverse, num_newton_iterations_remaining,
                tracking_tolerance, norm_of_latest_newton_residual, norm_z,
                num_digits, AMP_config, log10_steps,
                hermiteVars, poolVars, endgameVars>>

CheckCriterionA ==
    /\ verdict = Pending("A")
    /\ verdict' = [criterion |-> "A", returned |-> TRUE,
                   passed |-> CriterionA(R(norm_J), R(norm_J_inverse), AMP_config)]
    /\ AMPUnchanged

CheckCriterionB ==
    /\ verdict = Pending("B")
    /\ verdict' = [criterion |-> "B", returned |-> TRUE,
                   passed |-> CriterionB(R(norm_J), R(norm_J_inverse),
                                         num_newton_iterations_remaining,
                                         R(tracking_tolerance),
                                         R(norm_of_latest_newton_residual),
                                         AMP_config)]
    /\ AMPUnchanged

CheckCriterionC ==
    /\ verdict = Pending("C")
    /\ verdict' = [criterion |-> "C", returned |-> TRUE,
                   passed |-> CriterionC(R(norm_J_inverse), R(norm_z),
                                         R(tracking_tolerance), AMP_config)]
    /\ AMPUnchanged

(***************************************************************************)
(* The pool behind SystemPool and PointPool (detail::Pool<T>): acquire     *)
(* hands out an idle instance or constructs one, release returns it, both  *)
(* inside the pool's critical section.                                     *)
(***************************************************************************)
Callers == 1..NumCallers

\* (variant: the critical section left unguarded)
MutexFree_Unguarded == TRUE

MutexFree == pool_mutex = 0

PoolInit ==
    /\ pool_idle = {}
    /\ pool_constructed = 0
    /\ pool_handle = [c \in Callers |-> 0]
    /\ pool_pick = [c \in Callers |-> 0]
    /\ pool_pc = [c \in Callers |-> "out"]
    /\ pool_mutex = 0

PoolOthersUnchanged == UNCHANGED <<hermiteVars, ampVars, endgameVars>>

\* acquire(): enter the critical section
AcquireBegin(c) ==
    /\ pool_pc[c] = "out"
    /\ MutexFree
    /\ pool_mutex' = c
    /\ pool_pc' = [pool_pc EXCEPT ![c] = "acquiring"]
    /\ UNCHANGED <<pool_idle, pool_constructed, pool_handle, pool_pick>>
    /\ PoolOthersUnchanged

\* acquire(): look for an idle instance
AcquirePick(c) ==
    /\ pool_pc[c] = "acquiring"
    /\ \E i \in (IF pool_idle = {} THEN {0} ELSE pool_idle) :
          pool_pick' = [pool_pick EXCEPT ![c] = i]
    /\ pool_pc' = [pool_pc EXCEPT ![c] = "picked"]
    /\ UNCHANGED <<pool_idle, pool_constructed, pool_handle, pool_mutex>>
    /\ PoolOthersUnchanged

\* acquire(): take the idle instance found, or construct a fresh one, and leave
AcquireTake(c) ==
    /\ pool_pc[c] = "picked"
    /\ IF pool_pick[c] # 0
       THEN /\ pool_idle' = pool_idle \ {pool_pick[c]}
            /\ pool_handle' = [pool_handle EXCEPT ![c] = pool_pick[c]]
            /\ UNCHANGED pool_constructed
       ELSE /\ pool_constructed' = pool_constructed + 1
            /\ pool_handle' = [pool_handle EXCEPT ![c] = pool_constructed + 1]
            /\ UNCHANGED pool_idle
    /\ pool_pick' = [pool_pick EXCEPT ![c] = 0]
    /\ pool_pc' = [pool_pc EXCEPT ![c] = "holding"]
    /\ pool_mutex' = 0
    /\ PoolOthersUnchanged

\* release(handle): enter the critical section
ReleaseBegin(c) ==
    /\ pool_pc[c] = "holding"
    /\ MutexFree
    /\ pool_mutex' = c
    /\ pool_pc' = [pool_pc EXCEPT ![c] = "releasing"]
    /\ UNCHANGED <<pool_idle, pool_constructed, pool_handle, pool_pick>>
    /\ PoolOthersUnchanged

\* release(handle): the instance joins the idle set, the handle dies
ReleaseEnd(c) ==
    /\ pool_pc[c] = "releasing"
    /\ pool_idle' = pool_idle \cup {pool_handle[c]}
    /\ pool_handle' = [pool_handle EXCEPT ![c] = 0]
    /\ pool_pc' = [pool_pc EXCEPT ![c] = "out"]
    /\ pool_mutex' = 0
    /\ UNCHANGED <<pool_constructed, pool_pick>>
    /\ PoolOthersUnchanged

(***************************************************************************)
(* The endgame convergence loop (PowerSeriesEndgame, of which              *)
(* FixedPrecPowerSeriesEndgame is the fixed-precision instance).           *)
(* Estimates are scalars; the norm of a difference is its absolute value.  *)
(***************************************************************************)
NoEstimate == -1

Estimates == 0..MaxEstimate

\* (variant: the comparison made strict)
WithinTolerance_Strict(difference, tolerance) == difference < tolerance

WithinTolerance(difference, tolerance) == difference <= tolerance

EndgameInit ==
    /\ eg_state = "Collecting"
    /\ eg_samples = 0
    /\ eg_window = 1
    /\ eg_previous = NoEstimate
    /\ eg_latest = NoEstimate
    /\ eg_refinements = 0
    /\ eg_tolerance \in 0..MaxTolerance

EndgameOthersUnchanged == UNCHANGED <<hermiteVars, ampVars, poolVars>>

\* Collecting: the tracker appends a sample
CollectSample ==
    /\ eg_state = "Collecting"
    /\ eg_samples < eg_window
    /\ eg_samples' = eg_samples + 1
    /\ UNCHANGED <<eg_state, eg_window, eg_previous, eg_latest,
                   eg_refinements, eg_tolerance>>
    /\ EndgameOthersUnchanged

\* Collecting -> Extrapolating once the window is available
BeginExtrapolating ==
    /\ eg_state = "Collecting"
    /\ eg_samples >= eg_window
    /\ eg_state' = "Extrapolating"
    /\ UNCHANGED <<eg_samples, eg_window, eg_previous, eg_latest,
                   eg_refinements, eg_tolerance>>
    /\ EndgameOthersUnchanged

\* Extrapolating: one estimate is produced
Extrapolate ==
    /\ eg_state = "Extrapolating"
    /\ eg_previous' = eg_latest
    /\ eg_latest' \in Estimates
    /\ eg_state' = "Comparing"
    /\ UNCHANGED <<eg_samples, eg_window, eg_refinements, eg_tolerance>>
    /\ EndgameOthersUnchanged

\* Comparing: converge, refine, or fail
Compare ==
    /\ eg_state = "Comparing"
    /\ IF /\ eg_previous # NoEstimate
          /\ WithinTolerance(Abs(eg_latest - eg_previous), eg_tolerance)
       THEN /\ eg_state' = "Converged"
            /\ UNCHANGED <<eg_window, eg_refinements>>
       ELSE IF eg_refinements < MaxRefinements
       THEN /\ eg_state' = "Collecting"
            /\ eg_window' = eg_window + 1
            /\ eg_refinements' = eg_refinements + 1
       ELSE /\ eg_state' = "Failed"
            /\ UNCHANGED <<eg_window, eg_refinements>>
    /\ UNCHANGED <<eg_samples, eg_previous, eg_latest, eg_tolerance>>
    /\ EndgameOthersUnchanged

(***************************************************************************)
(* Specifications, one per component; the other components stay idle.      *)
(***************************************************************************)
HermiteIdle ==
    /\ path = <<>> /\ target_time = R(0) /\ num_sample_points = 0
    /\ times = <<>> /\ samples = <<>> /\ derivatives = <<>>
    /\ hermite_pc = "idle" /\ outcome = NoOutcome

AMPIdle ==
    /\ norm_J = 1 /\ norm_J_inverse = 1 /\ num_newton_iterations_remaining = 1
    /\ tracking_tolerance = 1 /\ norm_of_latest_newton_residual = 1
    /\ norm_z = 0 /\ num_digits = 1
    /\ AMP_config = CHOOSE c \in AMPConfigs : c.safety_digits_1 = 1
    /\ log10_steps = <<1, 1>>
    /\ verdict = [criterion |-> "idle", returned |-> FALSE, passed |-> FALSE]

PoolIdle ==
    /\ pool_idle = {} /\ pool_constructed = 0
    /\ pool_handle = [c \in Callers |-> 0] /\ pool_pick = [c \in Callers |-> 0]
    /\ pool_pc = [c \in Callers |-> "idle"] /\ pool_mutex = 0

EndgameIdle ==
    /\ eg_state = "Idle" /\ eg_samples = 0 /\ eg_window = 0
    /\ eg_previous = NoEstimate /\ eg_latest = NoEstimate
    /\ eg_refinements = 0 /\ eg_tolerance = 0

Init == HermiteInit /\ AMPIdle /\ PoolIdle /\ EndgameIdle

Next == HermiteCall

Spec == Init /\ [][Next]_vars

InitAMP == AMPInit /\ HermiteIdle /\ PoolIdle /\ EndgameIdle

NextAMP == CheckCriterionA \/ CheckCriterionB \/ CheckCriterionC

SpecAMP == InitAMP /\ [][NextAMP]_vars

InitPool == PoolInit /\ HermiteIdle /\ AMPIdle /\ EndgameIdle

NextPool ==
    \E c \in Callers :
        \/ AcquireBegin(c) \/ AcquirePick(c) \/ AcquireTake(c)
        \/ ReleaseBegin(c) \/ ReleaseEnd(c)

SpecPool == InitPool /\ [][NextPool]_vars

InitEndgame == EndgameInit /\ HermiteIdle /\ AMPIdle /\ PoolIdle

NextEndgame == CollectSample \/ BeginExtrapolating \/ Extrapolate \/ Compare

SpecEndgame == InitEndgame /\ [][NextEndgame]_vars

(***************************************************************************)
(* Properties of HermiteInterpolateAndSolve.                               *)
(***************************************************************************)
Returned == hermite_pc = "done" /\ outcome.status = "returned"

\* the k-th most recent entry of a container
Recent(d, k) == DequeAt(d, Len(d) - 1 - k)

\* C1 (as claimed): on exact samples of a polynomial of degree 2n-1 the call
\* returns the polynomial's value at the target time.
C1_RoundTrip ==
    (Returned /\ num_sample_points >= 1
       /\ Degree(path) = 2 * num_sample_points - 1)
    => outcome.value = PolyEval(path, target_time)

\* C2 (as claimed): at the k-th most recent sample time the call returns the
\* k-th most recent sample point.
C2_MatchesSamples ==
    (Returned /\ num_sample_points >= 1)
    => \A k \in 0..(num_sample_points - 1) :
          target_time = Recent(times, k) => outcome.value = Recent(samples, k)

\* C3: with num_sample_points = 1 the call returns
\* point + derivative * (target_time - sample_time) of the most recent sample.
C3_TaylorOrderOne ==
    (hermite_pc = "done" /\ num_sample_points = 1
       /\ Len(times) >= 1 /\ Len(samples) >= 1 /\ Len(derivatives) >= 1)
    => /\ outcome.status = "returned"
       /\ outcome.value =
             RAdd(Recent(samples, 0),
                  RMul(Recent(derivatives, 0),
                       RSub(target_time, Recent(times, 0))))

C3_Witness ==
    /\ Returned /\ num_sample_points = 1
    /\ Len(samples) >= 2 /\ Recent(samples, 0) # samples[1]
    /\ Recent(derivatives, 0) # R(0) /\ target_time # Recent(times, 0)

InScenario ==
    /\ times = ScenarioTimes /\ path = ScenarioPath
    /\ Len(samples) = 3 /\ Len(derivatives) = 3
    /\ num_sample_points = 3 /\ target_time = R(0)

\* C4: three samples of t^2 + 1 at 0.1, 0.01, 0.001, extrapolated to 0 with
\* num_sample_points = 3, give a value within 1e-6 of 1.
C4_Scenario ==
    (InScenario /\ hermite_pc = "done")
    => /\ outcome.status = "returned"
       /\ RLeq(RAbs(RSub(outcome.value, R(1))), <<1, 1000000>>)

C4_Witness == InScenario /\ Returned

AssertionFailures == {"assert_times", "assert_samples", "assert_derivatives"}

\* C5: a container shorter than num_sample_points fails an assertion before
\* the table is built and no estimate is produced; when all three containers
\* are long enough no assertion fires.
C5_Preconditions ==
    hermite_pc = "done" =>
      IF \/ Len(times) < num_sample_points
         \/ Len(samples) < num_sample_points
         \/ Len(derivatives) < num_sample_points
      THEN /\ outcome.status \in AssertionFailures
           /\ ~outcome.built
           /\ outcome.value = Unset
      ELSE outcome.status \notin AssertionFailures

C5_Witness ==
    /\ hermite_pc = "done"
    /\ Len(times) >= num_sample_points /\ Len(samples) >= num_sample_points
    /\ Len(derivatives) < num_sample_points
    /\ outcome.status = "assert_derivatives"

\* C10 (as claimed): once the assertions pass the call is memory safe for
\* every num_sample_points, 0 included, and the Horner loop runs exactly
\* max(n - 1, 0) times.
C10_SafeForEveryCount ==
    (hermite_pc = "done" /\ outcome.status \notin AssertionFailures)
    => /\ outcome.fault = "none"
       /\ outcome.iters =
             (IF num_sample_points >= 1 THEN num_sample_points - 1 ELSE 0)

(***************************************************************************)
(* Properties of the AMP criteria.                                         *)
(***************************************************************************)
\* C6 (as claimed): with num_newton_iterations_remaining = 0 Criterion B
\* returns no verdict.
C6_ZeroIterationsGuarded ==
    (verdict.criterion = "B" /\ num_newton_iterations_remaining = 0)
    => /\ ~verdict.returned
       /\ ~(verdict.passed
            /\ norm_of_latest_newton_residual < tracking_tolerance)

\* the tuples harder than the current one: larger norms, smaller tolerance
Harder ==
    {h \in (norm_J..MaxNorm) \X (norm_J_inverse..MaxNorm)
           \X (1..tracking_tolerance) : TRUE}

HarderA(h) == CriterionA(R(h[1]), R(h[2]), AMP_config)

HarderB(h) ==
    CriterionB(R(h[1]), R(h[2]), num_newton_iterations_remaining, R(h[3]),
               R(norm_of_latest_newton_residual), AMP_config)

HarderC(h) == CriterionC(R(h[2]), R(norm_z), R(h[3]), AMP_config)

\* C7: a criterion that passes on a harder tuple (larger norm_J, larger
\* norm_J_inverse, smaller tracking_tolerance, all else equal) passes on the
\* current one; for Criterion B with iterations remaining > 0.
C7_Monotone ==
    \A h \in Harder :
        /\ (verdict.returned /\ verdict.criterion = "A" /\ HarderA(h))
              => verdict.passed
        /\ (verdict.returned /\ verdict.criterion = "B"
              /\ num_newton_iterations_remaining > 0 /\ HarderB(h))
              => verdict.passed
        /\ (verdict.returned /\ verdict.criterion = "C" /\ HarderC(h))
              => verdict.passed

C7_Witness ==
    /\ verdict.returned
    /\ verdict.criterion = "B" /\ num_newton_iterations_remaining > 1
    /\ verdict.passed
    /\ \E h \in Harder : h[3] < tracking_tolerance /\ h[1] = norm_J
                          /\ h[2] = norm_J_inverse /\ ~HarderB(h)

(***************************************************************************)
(* Properties of the pool.                                                 *)
(***************************************************************************)
\* C8: no two live handles reference the same pooled instance.
C8_Exclusive ==
    \A c1, c2 \in Callers :
        (c1 # c2 /\ pool_handle[c1] # 0) => pool_handle[c1] # pool_handle[c2]

C8_Witness ==
    /\ \E c1, c2 \in Callers :
          c1 # c2 /\ pool_handle[c1] # 0 /\ pool_handle[c2] # 0
    /\ pool_constructed = 2
    /\ \E c \in Callers : pool_pc[c] = "out" /\ pool_idle = {}

(***************************************************************************)
(* Properties of the endgame convergence loop.                             *)
(***************************************************************************)
\* C9: from Comparing, two consecutive estimates that differ by exactly the
\* final tolerance take the loop to Converged.
C9_InclusiveBoundary ==
    [][(/\ eg_state = "Comparing"
        /\ eg_previous # NoEstimate
        /\ Abs(eg_latest - eg_previous) = eg_tolerance)
       => eg_state' = "Converged"]_vars

C9_Witness ==
    /\ eg_state = "Converged"
    /\ eg_tolerance > 0
    /\ Abs(eg_latest - eg_previous) = eg_tolerance

=============================================================================
